---- MODULE Spec2Model ----
(***************************************************************************)
(* Request lifecycle and stock ledger of the store-management server       *)
(* (multi-item request handlers over PostgreSQL).                           *)
(*                                                                         *)
(* The database is modelled as PostgreSQL runs it under the default        *)
(* READ COMMITTED isolation: every statement reads the committed rows,     *)
(* the writes of a transaction are private until COMMIT, SELECT ... FOR    *)
(* UPDATE and UPDATE take a row lock that is held to the end of the        *)
(* transaction, and a statement that needs a locked row waits.             *)
(* Each handler is a sequence of steps; a step is the code from one        *)
(* awaited statement that can wait or read shared rows up to the next.     *)
(***************************************************************************)
EXTENDS Integers, Sequences, FiniteSets, TLC

\* ------------------------------------------------------------------ bounds
\* handler invocations started in one behaviour (also the logical clock's cap)
MaxOps == 2
\* initial stock of the non-consumable component, and the scale of the quantities asked
MaxStock == 3
\* the stock of the component of the approve-and-return scenario
ScenarioStock == 10
\* the calls of the approve-and-return scenario: create, approve, return
ScenarioOps == 3

\* concurrent handler invocations (pool connections in use)
Proc == {1, 2}
\* request ids that callers name; at most this many requests are created
RequestIds == {1, 2}

\* ------------------------------------------------------------------ data
\* approved_at / returned_at before they are set
NULL == 0

\* component 1 is non-consumable, component 2 is consumable
ComponentIds == {1, 2}
\* a componentId the body omits (falsy in JS), and one that resolves to no row
MissingId == 0
UnknownId == 3

STATUSES == {"PENDING", "APPROVED", "RETURNED"}
ADMIN_TOKEN == "secret"

VARIABLES
  components,      \* table components: id -> [quantity, consumable]
  requests,        \* table requests: sequence indexed by id
  request_items,   \* table request_items: per request id, its item rows in order
  usage_history,   \* table usage_history, in insertion order
  locks,           \* row locks held by each open transaction
  pc,              \* where each handler invocation stands
  tx,              \* locals of each handler invocation, with its uncommitted writes
  resp,            \* the response the last step sent, NoResponse if it sent none
  clock,           \* logical time: one tick per handler invocation
  outbox,          \* the e-mails handed to the SMTP transport so far
  mailer,          \* notifications.js: its configuration and its last call
  pool             \* the pool's clients checked out and not released

db == <<components, requests, request_items, usage_history>>
vars ==
  <<components, requests, request_items, usage_history, locks, pc, tx, resp, clock, outbox,
    mailer, pool>>

NoWrites == [req |-> <<>>, items |-> <<>>, comp |-> <<>>, usage |-> <<>>]

IdleTx == [op |-> "none", id |-> 0, status |-> "", name |-> "", items |-> <<>>,
           todo |-> <<>>, i |-> 0, row |-> <<>>, now |-> NULL, w |-> NoWrites,
           token |-> ""]

\* the response a step sends, if it sends one
NoResponse ==
  [to |-> 0, op |-> "none", id |-> 0, code |-> 0, error |-> "", available |-> <<>>,
   component |-> 0, rows |-> {}]

\* res.status(code).json(...) of invocation p, which named request id in its URL
Response(p, op, id, code, error, available) ==
  [to |-> p, op |-> op, id |-> id, code |-> code, error |-> error,
   available |-> available, component |-> 0, rows |-> {}]

\* res.json(result.rows) of a list endpoint: the ids of the requests listed
Listing(op, ids) == [NoResponse EXCEPT !.op = op, !.code = 200, !.rows = ids]

\* a response whose error message names a component (comp.name, component_name)
About(response, c) == [response EXCEPT !.component = c]

Item(c, q) == [componentId |-> c, quantity |-> q]

\* request bodies' item lists that pass the creation check against the initial stock:
\* all of component 1; component 1 twice; component 2 then component 1;
\* component 1 then component 2
StockedLists ==
  { <<Item(1, MaxStock)>>,
    <<Item(1, MaxStock - 1), Item(1, MaxStock - 1)>>,
    <<Item(2, 1), Item(1, MaxStock)>>,
    <<Item(1, 1), Item(2, 1)>> }

\* item lists that a create or an edit must refuse: no item, no componentId,
\* quantity 0, an unknown component before an over-ask, an over-ask after a good item
RefusedLists ==
  { <<>>,
    <<Item(MissingId, 1)>>,
    <<Item(1, 0)>>,
    <<Item(UnknownId, 1), Item(1, MaxStock + 1)>>,
    <<Item(2, 1), Item(1, MaxStock + 1)>> }

\* a create is called with a refused list or a stocked one, by "ann" or by nobody;
\* an edit with a refused list or the last stocked one, renaming to "bob" or to nobody
CreateLists == StockedLists \cup RefusedLists
EditLists == {<<Item(1, 1), Item(2, 1)>>} \cup RefusedLists
CreateNames == {"", "ann"}
EditNames == {"", "bob"}
StatusInputs == STATUSES \cup {"CANCELLED"}
\* a delete names component 1, which requests ask for and returns credit, or an id
\* that resolves to no row
DeleteIds == {1, UnknownId}
TokenInputs == {ADMIN_TOKEN, "guess"}

\* the request_items rows inserted for a request body's items
ItemRows(items) ==
  [k \in 1..Len(items) |->
     [component_id |-> items[k].componentId, quantity |-> items[k].quantity]]

\* the row INSERT INTO requests ... 'PENDING', NOW() returns
NewRequest(id, name, now) ==
  [id |-> id, personnel_name |-> name, status |-> "PENDING",
   requested_at |-> now, approved_at |-> NULL, returned_at |-> NULL]

\* the stock each component is created with
InitialQuantity(c) == IF c = 1 THEN MaxStock ELSE MaxStock - 1

\* the minStock each component is created with: one unit for component 1, the
\* column's default for component 2
InitialMinStock(c) == IF c = 1 THEN 1 ELSE 0

\* the two components the server starts with
InitialComponents ==
  [c \in ComponentIds |->
     [quantity |-> InitialQuantity(c), consumable |-> (c = 2),
      min_stock |-> InitialMinStock(c)]]

\* process.env as notifications.js reads it when it is loaded: whether SMTP_USER and
\* SMTP_PASS are both set, and NOTIFICATION_TO_ADMIN ("" when unset)
Environments ==
  [transporter : BOOLEAN, NOTIFICATION_TO_ADMIN : {<<>>, <<"s">>}]

\* neither the SMTP credentials nor the admin address are set
NoMail == [transporter |-> FALSE, NOTIFICATION_TO_ADMIN |-> <<>>]

\* what a call of a notification function comes to: the value its promise resolves
\* to, or thrown when the promise rejects
NoOutcome == [thrown |-> FALSE, success |-> FALSE, error |-> "", mail |-> <<>>]

\* notifications.js loaded under env, none of its functions called yet
LoadedMailer(env) == [env |-> env, fn |-> "none", arg |-> <<>>, outcome |-> NoOutcome]

\* the server with the components comps stored, the PENDING requests of lists
\* already created, no call in progress and notifications.js loaded under env
Started(comps, lists, env) ==
  /\ components = comps
  /\ requests = [k \in 1..Len(lists) |-> NewRequest(k, "ann", 0)]
  /\ request_items = [k \in 1..Len(lists) |-> ItemRows(lists[k])]
  /\ usage_history = <<>>
  /\ locks = [p \in Proc |-> {}]
  /\ pc = [p \in Proc |-> "idle"]
  /\ tx = [p \in Proc |-> IdleTx]
  /\ clock = 0
  /\ resp = NoResponse
  /\ outbox = <<>>
  /\ mailer = LoadedMailer(env)
  /\ pool = 0

\* The server starts with its two components stocked and with up to two PENDING
\* requests already created against that stock: the first with any stocked list,
\* the second asking for all of component 1.
Init ==
  \E n \in 0..Cardinality(RequestIds) :
    \E lists \in {l \in [1..n -> StockedLists] :
                     n = 2 => l[2] = <<Item(1, MaxStock)>>} :
      Started(InitialComponents, lists, NoMail)

\* ------------------------------------------------------------------ helpers
\* if (!personnelName || !Array.isArray(items) || items.length === 0)
BodyInvalid(name, items) == name = "" \/ Len(items) = 0

\* variant: a quantity of zero passes
ItemInvalid_NegativeOnly(item) == item.componentId = MissingId \/ item.quantity < 0

\* if (!item.componentId || !item.quantity || item.quantity <= 0)
ItemInvalid(item) == item.componentId = MissingId \/ item.quantity <= 0

\* variant: the comparison with the asked quantity is off by one
InsufficientStock_OffByOne(available, asked) == available <= 0 \/ available + 1 < asked

\* variant: the comparison with the asked quantity is missing
InsufficientStock_ZeroOnly(available, asked) == available <= 0

\* if (comp.quantity <= 0 || comp.quantity < item.quantity)
InsufficientStock(available, asked) == available <= 0 \/ available < asked

\* variant: the item is compared with the stock its component was created with
ApprovalShort_AtCreation(item) == InitialQuantity(item.component_id) < item.quantity

\* variant: only an empty component counts as short
ApprovalShort_ZeroOnly(item) == item.component_quantity <= 0

\* if (available < qty), over the rows of the item fetch
ApprovalShort(item) == item.component_quantity < item.quantity

\* variant: the guard refuses RETURNED requests only
EditRefused_ReturnedOnly(status) == status = "RETURNED"

\* if (existing.status !== "PENDING"): the edit is refused
EditRefused(status) == status # "PENDING"

\* variant: no item is credited on return
Returnable_None(item) == FALSE

\* variant: every item is credited on return
Returnable_All(item) == TRUE

\* if (item.consumable === false): the item is credited on return
Returnable(item) == item.consumable = FALSE

\* variant: the item list is never found empty
NoItems_Never(items) == FALSE

\* if (items.length === 0), over the rows of the item fetch
NoItems(items) == Len(items) = 0

\* the item at which the availability loop of an approval returns: the first
\* fetched row that is short
FirstShort(items) ==
  items[CHOOSE k \in 1..Len(items) :
          /\ ApprovalShort(items[k])
          /\ \A j \in 1..(k - 1) : ~ApprovalShort(items[j])]

\* variant: requireAdmin lets every token through
AdminRefused_Never(token) == FALSE

\* if (token !== configured)
AdminRefused(token) == token # ADMIN_TOKEN

\* variant: the catch block commits
CatchEnd_Commit == "COMMIT"

\* what the catch block sends before it releases the connection
CatchEnd == "ROLLBACK"

\* an incoming call is served as invocation p: the first one not in use (which
\* of the idle ones serves it makes no difference to the call)
FirstIdle(p) == pc[p] = "idle" /\ \A q \in Proc : q < p => pc[q] # "idle"

\* variant: SELECT ... FROM requests takes no row lock (no FOR UPDATE)
LockFree_ComponentsOnly(p, l) ==
  l[1] = "requests" \/ \A q \in Proc \ {p} : l \notin locks[q]

\* variant: the lock is granted at once
LockFree_AtOnce(p, l) == TRUE

\* a row lock is granted when no other open transaction holds it
LockFree(p, l) == \A q \in Proc \ {p} : l \notin locks[q]

\* SELECT ri.*, c.consumable, c.quantity AS component_quantity
\*   FROM request_items ri JOIN components c ON ri.component_id = c.id
ItemFetch(id) ==
  LET rows == request_items[id]
      joined == SelectSeq(rows, LAMBDA ri : ri.component_id \in DOMAIN components)
  IN [k \in 1..Len(joined) |->
        [component_id       |-> joined[k].component_id,
         quantity           |-> joined[k].quantity,
         consumable         |-> components[joined[k].component_id].consumable,
         component_quantity |-> components[joined[k].component_id].quantity]]

\* UPDATE components SET quantity = quantity + delta WHERE id = c, not yet committed
WriteComp(w, c, delta) ==
  [w EXCEPT !.comp = Append(w.comp, [component_id |-> c, delta |-> delta])]

\* variant: the record keeps the size of the quantity and drops its sign
WriteUsage_Unsigned(w, c, quantity, type, label, name) ==
  [w EXCEPT !.usage = Append(w.usage,
     [component_id |-> c, quantity |-> IF quantity < 0 THEN 0 - quantity ELSE quantity,
      type |-> type, project |-> <<label, name>>])]

\* INSERT INTO usage_history (component_id, quantity, type, project), not yet committed
WriteUsage(w, c, quantity, type, label, name) ==
  [w EXCEPT !.usage = Append(w.usage,
     [component_id |-> c, quantity |-> quantity, type |-> type,
      project |-> <<label, name>>])]

RECURSIVE SumDelta(_, _)
SumDelta(ws, c) ==
  IF ws = <<>> THEN 0
  ELSE (IF Head(ws).component_id = c THEN Head(ws).delta ELSE 0) + SumDelta(Tail(ws), c)

\* the tables after COMMIT makes the writes w of a transaction on request id visible
CommittedComponents(w) ==
  [c \in DOMAIN components |->
     [components[c] EXCEPT !.quantity = components[c].quantity + SumDelta(w.comp, c)]]

CommittedRequests(w, id) ==
  IF w.req = <<>> THEN requests ELSE [requests EXCEPT ![id] = w.req[1]]

CommittedItems(w, id) ==
  IF w.items = <<>> THEN request_items ELSE [request_items EXCEPT ![id] = w.items[1]]

\* the end of a handler invocation that opened a transaction: COMMIT or ROLLBACK,
\* client.release(), and the response
EndTransaction(p, t, cmd, response) ==
  /\ IF cmd = "COMMIT"
       THEN /\ components' = CommittedComponents(t.w)
            /\ requests' = CommittedRequests(t.w, t.id)
            /\ request_items' = CommittedItems(t.w, t.id)
            /\ usage_history' = usage_history \o t.w.usage
       ELSE UNCHANGED db
  /\ locks' = [locks EXCEPT ![p] = {}]
  /\ pc' = [pc EXCEPT ![p] = "idle"]
  /\ tx' = [tx EXCEPT ![p] = IdleTx]
  /\ resp' = response
  /\ pool' = pool - 1
  /\ UNCHANGED <<clock, outbox, mailer>>

\* a response sent before any transaction is opened
Reject(p, response) ==
  /\ pc' = [pc EXCEPT ![p] = "idle"]
  /\ tx' = [tx EXCEPT ![p] = IdleTx]
  /\ resp' = response
  /\ UNCHANGED <<db, locks, outbox, mailer, pool>>

\* component_id INTEGER NOT NULL REFERENCES components(id): an INSERT of a row
\* that names a component with no row violates the foreign key and throws
ForeignKeyViolated(rows) ==
  \E k \in 1..Len(rows) : rows[k].component_id \notin DOMAIN components

\* requests already stored or about to be stored by a running create
RequestsInFlight == Len(requests) + Cardinality({q \in Proc : tx[q].op = "create"})

\* ------------------------------------------------------------------ POST /requests
CreateRequest(p, name, items) ==
  /\ FirstIdle(p)
  /\ RequestsInFlight < Cardinality(RequestIds)
  /\ clock' = clock + 1
  /\ IF BodyInvalid(name, items)
       THEN Reject(p, Response(p, "create", 0, 400,
                               "personnelName and items are required", <<>>))
     ELSE IF \E k \in 1..Len(items) : ItemInvalid(items[k])
       THEN Reject(p, Response(p, "create", 0, 400,
                               "Each item needs componentId and quantity > 0", <<>>))
     ELSE /\ pc' = [pc EXCEPT ![p] = "c_check"]
          /\ tx' = [tx EXCEPT ![p] =
                      [IdleTx EXCEPT !.op = "create", !.name = name,
                                     !.items = items, !.i = 1]]
          /\ resp' = NoResponse
          /\ UNCHANGED <<db, locks, outbox, mailer, pool>>

\* one turn of the stock-check loop: an autocommit SELECT of the item's component
CreateCheck(p) ==
  /\ pc[p] = "c_check"
  /\ LET item == tx[p].items[tx[p].i]
     IN IF item.componentId \notin DOMAIN components
          THEN Reject(p, Response(p, "create", 0, 404, "Component not found", <<>>))
        ELSE IF InsufficientStock(components[item.componentId].quantity, item.quantity)
          THEN Reject(p, About(Response(p, "create", 0, 400, "exceeds available stock",
                                        <<components[item.componentId].quantity>>),
                               item.componentId))
        ELSE /\ IF tx[p].i < Len(tx[p].items)
                  THEN /\ tx' = [tx EXCEPT ![p].i = @ + 1]
                       /\ UNCHANGED pc
                  ELSE /\ pc' = [pc EXCEPT ![p] = "c_insert"]
                       /\ UNCHANGED tx
             /\ pool' = IF tx[p].i < Len(tx[p].items) THEN pool ELSE pool + 1
             /\ resp' = NoResponse
             /\ UNCHANGED <<db, locks, outbox, mailer>>
  /\ UNCHANGED clock

\* variant: the create takes the first item's quantity out of its component
CreateInsert_Reserve(p) ==
  /\ pc[p] = "c_insert"
  /\ IF ForeignKeyViolated(ItemRows(tx[p].items))
       THEN EndTransaction(p, tx[p], CatchEnd,
                           Response(p, "create", 0, 500, "Internal server error", <<>>))
       ELSE /\ requests' = Append(requests, NewRequest(Len(requests) + 1, tx[p].name, clock))
            /\ request_items' = Append(request_items, ItemRows(tx[p].items))
            /\ pc' = [pc EXCEPT ![p] = "idle"]
            /\ tx' = [tx EXCEPT ![p] = IdleTx]
            /\ resp' = Response(p, "create", Len(requests) + 1, 201, "", <<>>)
            /\ pool' = pool - 1
            /\ components' = [components EXCEPT ![tx[p].items[1].componentId].quantity =
                                                  @ - tx[p].items[1].quantity]
            /\ UNCHANGED <<usage_history, locks, clock, outbox, mailer>>

\* BEGIN; INSERT INTO requests; INSERT INTO request_items per item; SELECT; COMMIT
CreateInsert(p) ==
  /\ pc[p] = "c_insert"
  /\ IF ForeignKeyViolated(ItemRows(tx[p].items))
       THEN EndTransaction(p, tx[p], CatchEnd,
                           Response(p, "create", 0, 500, "Internal server error", <<>>))
       ELSE /\ requests' = Append(requests, NewRequest(Len(requests) + 1, tx[p].name, clock))
            /\ request_items' = Append(request_items, ItemRows(tx[p].items))
            /\ pc' = [pc EXCEPT ![p] = "idle"]
            /\ tx' = [tx EXCEPT ![p] = IdleTx]
            /\ resp' = Response(p, "create", Len(requests) + 1, 201, "", <<>>)
            /\ pool' = pool - 1
            /\ UNCHANGED <<components, usage_history, locks, clock, outbox, mailer>>

\* ------------------------------------------------------------------ PATCH /requests/:id/status
\* requireAdmin, the status whitelist, pool.connect() and BEGIN
SetStatus(p, id, status, token) ==
  /\ FirstIdle(p)
  /\ clock' = clock + 1
  /\ IF AdminRefused(token)
       THEN Reject(p, Response(p, "setStatus", id, 403, "Admin access required", <<>>))
     ELSE IF status \notin STATUSES
       THEN Reject(p, Response(p, "setStatus", id, 400, "Invalid status", <<>>))
     ELSE /\ pc' = [pc EXCEPT ![p] = "s_lock"]
          /\ tx' = [tx EXCEPT ![p] =
                      [IdleTx EXCEPT !.op = "setStatus", !.id = id, !.status = status,
                                     !.token = token]]
          /\ resp' = NoResponse
          /\ pool' = pool + 1
          /\ UNCHANGED <<db, locks, outbox, mailer>>

\* variant: the status is written without its timestamp
StatusUpdate_Unstamped(row, status, now) == [row EXCEPT !.status = status]

\* the row written by UPDATE requests SET status = ... for the target status
StatusUpdate(row, status, now) ==
  IF status = "APPROVED" THEN [row EXCEPT !.status = "APPROVED", !.approved_at = now]
  ELSE IF status = "RETURNED" THEN [row EXCEPT !.status = "RETURNED", !.returned_at = now]
  ELSE [row EXCEPT !.status = "PENDING"]

\* variant: a reset to PENDING credits the items back as a return does
LedgerItems_PendingCredits(items, status) ==
  IF status = "APPROVED" THEN items ELSE SelectSeq(items, Returnable)

\* the items the ledger loop of the target status issues statements for
LedgerItems(items, status) ==
  IF status = "APPROVED" THEN items
  ELSE IF status = "RETURNED" THEN SelectSeq(items, Returnable)
  ELSE <<>>

\* variant: the debit takes one unit whatever the item asks
LedgerWrites_DebitOne(w, item, status, name) ==
  IF status = "APPROVED"
    THEN WriteUsage(WriteComp(w, item.component_id, 0 - 1),
                    item.component_id, 0 - item.quantity, "remove", "Request by", name)
    ELSE WriteUsage(WriteComp(w, item.component_id, item.quantity),
                    item.component_id, item.quantity, "add", "Return by", name)

\* variant: a return credits the component and writes no usage record
LedgerWrites_ReturnUnlogged(w, item, status, name) ==
  IF status = "APPROVED"
    THEN WriteUsage(WriteComp(w, item.component_id, 0 - item.quantity),
                    item.component_id, 0 - item.quantity, "remove", "Request by", name)
    ELSE WriteComp(w, item.component_id, item.quantity)

\* the two statements of one turn of the debit loop (APPROVED) or of the credit
\* loop (RETURNED): UPDATE components and INSERT INTO usage_history
LedgerWrites(w, item, status, name) ==
  IF status = "APPROVED"
    THEN WriteUsage(WriteComp(w, item.component_id, 0 - item.quantity),
                    item.component_id, 0 - item.quantity, "remove", "Request by", name)
    ELSE WriteUsage(WriteComp(w, item.component_id, item.quantity),
                    item.component_id, item.quantity, "add", "Return by", name)

\* the closing SELECT, COMMIT, client.release() and the 200 response
SetStatusCommit(p, t) ==
  EndTransaction(p, t, "COMMIT", Response(p, "setStatus", tx[p].id, 200, "", <<>>))

\* SELECT ... FOR UPDATE, which waits while another transaction holds the request's
\* row lock; then the not-found exit, the item fetch, the empty-list exit, the
\* availability loop and UPDATE requests. With no ledger statement to issue, the
\* handler goes on to COMMIT.
SetStatusItems(p) ==
  /\ pc[p] = "s_lock"
  /\ IF tx[p].id \notin DOMAIN requests
       THEN EndTransaction(p, tx[p], "ROLLBACK",
                           Response(p, "setStatus", tx[p].id, 404, "Request not found", <<>>))
       ELSE
         /\ LockFree(p, <<"requests", tx[p].id>>)
         /\ LET row == requests[tx[p].id]
                items == ItemFetch(tx[p].id)
                now == clock
                todo == LedgerItems(items, tx[p].status)
                t == [tx[p] EXCEPT !.row = <<row>>, !.items = items, !.now = now,
                                   !.todo = todo, !.i = 1,
                                   !.w.req = <<StatusUpdate(row, tx[p].status, now)>>]
            IN IF NoItems(items)
                 THEN EndTransaction(p, tx[p], "ROLLBACK",
                        Response(p, "setStatus", tx[p].id, 400, "No items on this request", <<>>))
               ELSE IF tx[p].status = "APPROVED"
                         /\ \E k \in 1..Len(items) : ApprovalShort(items[k])
                 THEN EndTransaction(p, tx[p], "ROLLBACK",
                        About(Response(p, "setStatus", tx[p].id, 400, "Insufficient stock",
                                       <<>>),
                              FirstShort(items).component_id))
               ELSE IF Len(todo) = 0
                 THEN SetStatusCommit(p, t)
               ELSE /\ locks' = [locks EXCEPT ![p] = @ \cup {<<"requests", tx[p].id>>}]
                    /\ tx' = [tx EXCEPT ![p] = t]
                    /\ pc' = [pc EXCEPT ![p] = "s_ledger"]
                    /\ resp' = NoResponse
                    /\ UNCHANGED <<db, clock, outbox, mailer, pool>>

\* one turn of the debit or credit loop: UPDATE components waits while another
\* transaction holds the component's row lock. After the last turn the handler
\* goes on to COMMIT.
SetStatusLedger(p) ==
  /\ pc[p] = "s_ledger"
  /\ LET item == tx[p].todo[tx[p].i]
         t == [tx[p] EXCEPT !.w = LedgerWrites(@, item, tx[p].status,
                                               tx[p].row[1].personnel_name),
                            !.i = @ + 1]
     IN /\ LockFree(p, <<"components", item.component_id>>)
        /\ IF ForeignKeyViolated(<<item>>)
             THEN EndTransaction(p, tx[p], CatchEnd,
                    Response(p, "setStatus", tx[p].id, 500, "Internal server error", <<>>))
           ELSE IF tx[p].i < Len(tx[p].todo)
             THEN /\ locks' = [locks EXCEPT ![p] = @ \cup {<<"components", item.component_id>>}]
                  /\ tx' = [tx EXCEPT ![p] = t]
                  /\ resp' = NoResponse
                  /\ UNCHANGED <<db, pc, clock, outbox, mailer, pool>>
             ELSE SetStatusCommit(p, t)

\* ------------------------------------------------------------------ PATCH /requests/:id
\* the body validation, pool.connect() and BEGIN
EditRequest(p, id, name, items) ==
  /\ FirstIdle(p)
  /\ clock' = clock + 1
  /\ IF BodyInvalid(name, items)
       THEN Reject(p, Response(p, "edit", id, 400,
                               "personnelName and items are required", <<>>))
     ELSE IF \E k \in 1..Len(items) : ItemInvalid(items[k])
       THEN Reject(p, Response(p, "edit", id, 400,
                               "Each item needs componentId and quantity > 0", <<>>))
     ELSE /\ pc' = [pc EXCEPT ![p] = "e_lock"]
          /\ tx' = [tx EXCEPT ![p] =
                      [IdleTx EXCEPT !.op = "edit", !.id = id, !.name = name,
                                     !.items = items, !.i = 1]]
          /\ resp' = NoResponse
          /\ pool' = pool + 1
          /\ UNCHANGED <<db, locks, outbox, mailer>>

\* SELECT ... FOR UPDATE, the not-found exit and the status guard
EditLock(p) ==
  /\ pc[p] = "e_lock"
  /\ IF tx[p].id \notin DOMAIN requests
       THEN EndTransaction(p, tx[p], "ROLLBACK",
                           Response(p, "edit", tx[p].id, 404, "Request not found", <<>>))
       ELSE /\ LockFree(p, <<"requests", tx[p].id>>)
            /\ IF EditRefused(requests[tx[p].id].status)
                 THEN EndTransaction(p, tx[p], "ROLLBACK",
                        Response(p, "edit", tx[p].id, 400, "Only pending requests can be edited", <<>>))
                 ELSE /\ locks' = [locks EXCEPT ![p] = @ \cup {<<"requests", tx[p].id>>}]
                      /\ tx' = [tx EXCEPT ![p].row = <<requests[tx[p].id]>>]
                      /\ pc' = [pc EXCEPT ![p] = "e_check"]
                      /\ resp' = NoResponse
                      /\ UNCHANGED <<db, clock, outbox, mailer, pool>>

\* variant: the edit adds the new items to the ones the request has
EditWrites_Append(w, row, name, items) ==
  [w EXCEPT !.req = <<[row EXCEPT !.personnel_name = name]>>,
            !.items = <<request_items[row.id] \o ItemRows(items)>>]

\* variant: the edit also reserves the first new item's quantity
EditWrites_Reserve(w, row, name, items) ==
  [WriteComp(w, items[1].componentId, 0 - items[1].quantity)
     EXCEPT !.req = <<[row EXCEPT !.personnel_name = name]>>,
            !.items = <<ItemRows(items)>>]

\* the writes of a successful edit: UPDATE requests SET personnel_name,
\* DELETE FROM request_items, INSERT INTO request_items per item
EditWrites(w, row, name, items) ==
  [w EXCEPT !.req = <<[row EXCEPT !.personnel_name = name]>>,
            !.items = <<ItemRows(items)>>]

\* one turn of the stock validation loop, a SELECT inside the transaction. After
\* the last turn the handler goes on to its writes, the closing SELECT, COMMIT,
\* client.release() and the 200 response.
EditCheck(p) ==
  /\ pc[p] = "e_check"
  /\ LET item == tx[p].items[tx[p].i]
     IN IF item.componentId \notin DOMAIN components
          THEN EndTransaction(p, tx[p], "ROLLBACK",
                              Response(p, "edit", tx[p].id, 404, "Component not found", <<>>))
        ELSE IF InsufficientStock(components[item.componentId].quantity, item.quantity)
          THEN EndTransaction(p, tx[p], "ROLLBACK",
                 About(Response(p, "edit", tx[p].id, 400, "exceeds available stock",
                                <<components[item.componentId].quantity>>),
                       item.componentId))
        ELSE IF tx[p].i < Len(tx[p].items)
          THEN /\ tx' = [tx EXCEPT ![p].i = @ + 1]
               /\ resp' = NoResponse
               /\ UNCHANGED <<db, locks, pc, clock, outbox, mailer, pool>>
        ELSE IF ForeignKeyViolated(ItemRows(tx[p].items))
          THEN EndTransaction(p, tx[p], CatchEnd,
                              Response(p, "edit", tx[p].id, 500, "Internal server error", <<>>))
        ELSE EndTransaction(p, [tx[p] EXCEPT !.w = EditWrites(@, tx[p].row[1], tx[p].name,
                                                              tx[p].items)],
                            "COMMIT", Response(p, "edit", tx[p].id, 200, "", <<>>))

\* ------------------------------------------------------------------ DELETE /components/:id
\* the rows of a table that do not belong to component c
OtherRows(rows, c) == SelectSeq(rows, LAMBDA row : row.component_id # c)

\* a usage_history or request_items row still names component c
Referenced(c) ==
  \/ \E k \in 1..Len(usage_history) : usage_history[k].component_id = c
  \/ \E r \in DOMAIN request_items :
       \E k \in 1..Len(request_items[r]) : request_items[r][k].component_id = c

\* requireAdmin and SELECT id FROM components WHERE id = $1. No transaction is
\* opened: each statement of the handler commits on its own.
DeleteComponent(p, id, token) ==
  /\ FirstIdle(p)
  /\ clock' = clock + 1
  /\ IF AdminRefused(token)
       THEN Reject(p, Response(p, "delete", id, 403, "Admin access required", <<>>))
     ELSE IF id \notin DOMAIN components
       THEN Reject(p, Response(p, "delete", id, 404, "Component not found", <<>>))
     ELSE /\ pc' = [pc EXCEPT ![p] = "d_usage"]
          /\ tx' = [tx EXCEPT ![p] =
                      [IdleTx EXCEPT !.op = "delete", !.id = id, !.token = token]]
          /\ resp' = NoResponse
          /\ UNCHANGED <<db, locks, outbox, mailer, pool>>

\* result.rowCount of a DELETE ... WHERE component_id = c over rows
RowCount(rows, c) == Len(rows) - Len(OtherRows(rows, c))

RECURSIVE ItemCount(_, _)
ItemCount(tables, c) ==
  IF tables = <<>> THEN 0 ELSE RowCount(Head(tables), c) + ItemCount(Tail(tables), c)

\* DELETE FROM usage_history WHERE component_id = $1; tx[p].i adds up the rows the
\* call's statements have deleted
DeleteUsage(p) ==
  /\ pc[p] = "d_usage"
  /\ usage_history' = OtherRows(usage_history, tx[p].id)
  /\ tx' = [tx EXCEPT ![p].i = @ + RowCount(usage_history, tx[p].id)]
  /\ pc' = [pc EXCEPT ![p] = "d_items"]
  /\ resp' = NoResponse
  /\ UNCHANGED <<components, requests, request_items, locks, clock, outbox, mailer, pool>>

\* DELETE FROM request_items WHERE component_id = $1
DeleteItems(p) ==
  /\ pc[p] = "d_items"
  /\ request_items' = [r \in DOMAIN request_items |-> OtherRows(request_items[r], tx[p].id)]
  /\ tx' = [tx EXCEPT ![p].i = @ + ItemCount(request_items, tx[p].id)]
  /\ pc' = [pc EXCEPT ![p] = "d_row"]
  /\ resp' = NoResponse
  /\ UNCHANGED <<components, requests, usage_history, locks, clock, outbox, mailer, pool>>

\* DELETE FROM components WHERE id = $1, which waits while a transaction holds the
\* row's lock and throws when a row committed since still names the component;
\* then the 204 response
DeleteRow(p) ==
  /\ pc[p] = "d_row"
  /\ LockFree(p, <<"components", tx[p].id>>)
  /\ IF Referenced(tx[p].id)
       THEN Reject(p, Response(p, "delete", tx[p].id, 500, "Internal server error", <<>>))
       ELSE /\ components' = [c \in DOMAIN components \ {tx[p].id} |-> components[c]]
            /\ pc' = [pc EXCEPT ![p] = "idle"]
            /\ tx' = [tx EXCEPT ![p] = IdleTx]
            /\ resp' = Response(p, "delete", tx[p].id, 204, "", <<>>)
            /\ UNCHANGED <<requests, request_items, usage_history, locks, outbox, mailer, pool>>
  /\ UNCHANGED clock

\* ------------------------------------------------------------------ GET /requests/outstanding
\* variant: the query has no c.consumable = FALSE condition
Outstanding_Unfiltered ==
  LET rows == UNION {{<<r, k>> : k \in 1..Len(request_items[r])} : r \in DOMAIN requests}
      joined == {j \in rows :
                   request_items[j[1]][j[2]].component_id \in DOMAIN components}
      kept == {j \in joined : requests[j[1]].status = "APPROVED"}
  IN {j[1] : j \in kept}

\* FROM requests r JOIN request_items ri ON ri.request_id = r.id
\*   JOIN components c ON ri.component_id = c.id
\* WHERE r.status = 'APPROVED' AND c.consumable = FALSE GROUP BY r.id:
\* the ids of the rows returned
Outstanding ==
  LET rows == UNION {{<<r, k>> : k \in 1..Len(request_items[r])} : r \in DOMAIN requests}
      joined == {j \in rows :
                   request_items[j[1]][j[2]].component_id \in DOMAIN components}
      kept == {j \in joined :
                 /\ requests[j[1]].status = "APPROVED"
                 /\ components[request_items[j[1]][j[2]].component_id].consumable = FALSE}
  IN {j[1] : j \in kept}

\* one autocommit query and its response; 500 when the query throws
GetOutstanding ==
  /\ \/ resp' = Listing("outstanding", Outstanding)
     \/ resp' = Response(0, "outstanding", 0, 500, "Internal server error", <<>>)
  /\ UNCHANGED <<db, locks, pc, tx, clock, outbox, mailer, pool>>

\* ------------------------------------------------------------------ notifications
\* notifyLowStock(component): the alert sendEmail hands to the transport, for a
\* component snapshot
notifyLowStock(component) ==
  [kind |-> "Low Stock Alert", name |-> component.name,
   quantity |-> component.quantity, minStock |-> component.minStock]

\* Strings that the functions take apart (personnel names, addresses) are
\* sequences of characters; the empty string is <<>>.

\* str.includes(ch)
Includes(str, ch) == \E k \in 1..Len(str) : str[k] = ch

\* str.match(/<(.+)>/)?.[1]: what stands between the first "<" that a ">" follows
\* at a distance and the last ">"; <<>> when nothing matches
Match(str) ==
  LET opens == {i \in 1..Len(str) :
                  str[i] = "<" /\ \E j \in (i + 2)..Len(str) : str[j] = ">"}
  IN IF opens = {} THEN <<>>
     ELSE LET i == CHOOSE a \in opens : \A b \in opens : a <= b
              j == CHOOSE a \in (i + 2)..Len(str) :
                     str[a] = ">" /\ \A b \in (a + 1)..Len(str) : str[b] # ">"
          IN SubSeq(str, i + 1, j - 1)

\* the JavaScript values null and undefined, which have no properties to read
JsNull == [null |-> TRUE]

IsNull(value) == "null" \in DOMAIN value

\* return { success, error }
Returned(success, error, mail) ==
  [thrown |-> FALSE, success |-> success, error |-> error, mail |-> mail]

\* the promise of an async function rejects: a property of undefined was read
Thrown == [thrown |-> TRUE, success |-> FALSE, error |-> "TypeError", mail |-> <<>>]

\* what transporter.sendMail comes to: the message is accepted, or the call throws
\* with this message
SmtpOutcomes == {"sent", "Invalid login"}

\* sendEmail({ to, subject, html, text })
sendEmail(env, smtp, mail) ==
  IF ~env.transporter THEN Returned(FALSE, "Email not configured", <<>>)
  ELSE IF mail.to = <<>> THEN Returned(FALSE, "No recipient", <<>>)
  ELSE IF smtp = "sent" THEN Returned(TRUE, "", <<mail>>)
  ELSE Returned(FALSE, smtp, <<>>)

\* recipientEmail: the address in "Name <email>", else NOTIFICATION_TO_ADMIN
Recipient(env, personnelName) ==
  LET inName == IF Includes(personnelName, "<") /\ Includes(personnelName, ">")
                  THEN Match(personnelName)
                  ELSE <<>>
  IN IF inName = <<>> THEN env.NOTIFICATION_TO_ADMIN ELSE inName

\* the body shared by notifyRequestApproved and notifyRequestReturned:
\* personnelName.includes reads a property of personnelName, items.map one of items
notifyRequest(env, smtp, request, subject) ==
  IF "personnelName" \notin DOMAIN request THEN Thrown
  ELSE LET to == Recipient(env, request.personnelName)
       IN IF to = <<>> THEN Returned(FALSE, "No email address", <<>>)
          ELSE IF "items" \notin DOMAIN request THEN Thrown
          ELSE sendEmail(env, smtp, [to |-> to, kind |-> subject])

notifyRequestApproved(env, smtp, request) ==
  notifyRequest(env, smtp, request, "Request Approved")

notifyRequestReturned(env, smtp, request) ==
  notifyRequest(env, smtp, request, "Request Returned")

\* notifyLowStock(component) as its caller sees it: const { name, ... } = component
\* reads properties of component
notifyLowStockOutcome(env, smtp, component) ==
  IF env.NOTIFICATION_TO_ADMIN = <<>> THEN Returned(FALSE, "No admin email", <<>>)
  ELSE IF IsNull(component) THEN Thrown
  ELSE LET sent == sendEmail(env, smtp, [to |-> env.NOTIFICATION_TO_ADMIN])
       IN IF sent.success THEN [sent EXCEPT !.mail = <<notifyLowStock(component)>>]
          ELSE sent

\* the personnel names passed in: a plain name, "Name <email>", and brackets
\* with nothing between them
NotifiedNames == {<<"a">>, <<"a", " ", "<", "m", ">">>, <<"<", ">">>}

\* a request as the API hands it out, with its items
ApiRequest(name) ==
  [personnelName |-> name, requestedAt |-> 0,
   items |-> <<[componentName |-> 1, quantity |-> 1]>>]

\* the requests passed in: API requests, one without its items, a row as the
\* database returns it (personnel_name, no items), and null
NotifiedRequests ==
  {ApiRequest(name) : name \in NotifiedNames}
    \cup {[personnelName |-> <<"a", " ", "<", "m", ">">>, requestedAt |-> 0],
          NewRequest(1, "ann", 0), JsNull}

\* the components passed in: a row of the server's, a component mapped to the
\* API's names, and null
NotifiedComponents ==
  {[name |-> c, quantity |-> q, minStock |-> InitialMinStock(c)] :
     c \in ComponentIds, q \in 0..1} \cup {JsNull}

\* the recipients passed to sendEmail
Recipients == {<<>>, <<"m">>}

\* a call of a function of notifications.js returns to its caller: a message
\* the transport accepted is in the outbox
Call(fn, arg, outcome) ==
  /\ mailer' = [mailer EXCEPT !.fn = fn, !.arg = arg, !.outcome = outcome]
  /\ outbox' = outbox \o outcome.mail
  /\ clock' = clock + 1
  /\ UNCHANGED <<db, locks, pc, tx, resp, pool>>

SendEmail(to, smtp) ==
  Call("sendEmail", [to |-> to],
       sendEmail(mailer.env, smtp, [to |-> to, kind |-> "mail"]))

NotifyRequestApproved(request, smtp) ==
  Call("notifyRequestApproved", request,
       notifyRequestApproved(mailer.env, smtp, request))

NotifyRequestReturned(request, smtp) ==
  Call("notifyRequestReturned", request,
       notifyRequestReturned(mailer.env, smtp, request))

NotifyLowStock(component, smtp) ==
  Call("notifyLowStock", component,
       notifyLowStockOutcome(mailer.env, smtp, component))

\* ------------------------------------------------------------------ single-item handlers
\* The second copy of the server keeps one component_id and one quantity in each
\* row of requests and has no request_items table.

\* the row INSERT INTO requests (personnel_name, component_id, quantity, ...) returns
SingleRequest(id, name, c, q, now) ==
  [id |-> id, personnel_name |-> name, component_id |-> c, quantity |-> q,
   status |-> "PENDING", requested_at |-> now, approved_at |-> NULL,
   returned_at |-> NULL]

\* !personnelName || !componentId || !quantity
SingleBodyInvalid(name, c, q) == name = "" \/ c = MissingId \/ q = 0

\* Math.abs
Abs(n) == IF n < 0 THEN 0 - n ELSE n

\* POST /requests: the body's check, then the autocommit SELECT of the component
\* and the stock check
SingleCreate(p, name, c, q) ==
  /\ FirstIdle(p)
  /\ RequestsInFlight < Cardinality(RequestIds)
  /\ clock' = clock + 1
  /\ IF SingleBodyInvalid(name, c, q)
       THEN Reject(p, Response(p, "create", 0, 400,
                               "personnelName, componentId and quantity are required",
                               <<>>))
     ELSE IF c \notin DOMAIN components
       THEN Reject(p, Response(p, "create", 0, 404, "Component not found", <<>>))
     ELSE IF InsufficientStock(components[c].quantity, q)
       THEN Reject(p, About(Response(p, "create", 0, 400, "exceeds available stock",
                                     <<components[c].quantity>>), c))
     ELSE /\ pc' = [pc EXCEPT ![p] = "sc_insert"]
          /\ tx' = [tx EXCEPT ![p] =
                      [IdleTx EXCEPT !.op = "create", !.name = name, !.row = Item(c, q)]]
          /\ resp' = NoResponse
          /\ UNCHANGED <<db, locks, outbox, mailer, pool>>

\* the autocommit INSERT INTO requests and the 201 response
SingleInsert(p) ==
  /\ pc[p] = "sc_insert"
  /\ requests' = Append(requests,
                        SingleRequest(Len(requests) + 1, tx[p].name,
                                      tx[p].row.componentId, tx[p].row.quantity, clock))
  /\ pc' = [pc EXCEPT ![p] = "idle"]
  /\ tx' = [tx EXCEPT ![p] = IdleTx]
  /\ resp' = Response(p, "create", Len(requests) + 1, 201, "", <<>>)
  /\ UNCHANGED <<components, request_items, usage_history, locks, clock, outbox, mailer,
                 pool>>

\* PATCH /requests/:id/status: requireAdmin, the status whitelist, pool.connect()
\* and BEGIN
SingleSetStatus(p, id, status, token) ==
  /\ FirstIdle(p)
  /\ clock' = clock + 1
  /\ IF AdminRefused(token)
       THEN Reject(p, Response(p, "setStatus", id, 403, "Admin access required", <<>>))
     ELSE IF status \notin STATUSES
       THEN Reject(p, Response(p, "setStatus", id, 400, "Invalid status", <<>>))
     ELSE /\ pc' = [pc EXCEPT ![p] = "ss_lock"]
          /\ tx' = [tx EXCEPT ![p] =
                      [IdleTx EXCEPT !.op = "setStatus", !.id = id, !.status = status,
                                     !.token = token]]
          /\ resp' = NoResponse
          /\ pool' = pool + 1
          /\ UNCHANGED <<db, locks, outbox, mailer>>

\* the UPDATE of components and the INSERT INTO usage_history of one transition
SingleLedger(w, row, status) ==
  IF status = "APPROVED"
    THEN WriteUsage(WriteComp(w, row.component_id, 0 - row.quantity),
                    row.component_id, 0 - Abs(row.quantity), "remove",
                    "Request by", row.personnel_name)
  ELSE IF status = "RETURNED" /\ components[row.component_id].consumable = FALSE
    THEN WriteUsage(WriteComp(w, row.component_id, row.quantity),
                    row.component_id, Abs(row.quantity), "add",
                    "Return by", row.personnel_name)
  ELSE w

\* SELECT ... FOR UPDATE of the request joined to its component, the branch on
\* the status, COMMIT or ROLLBACK, client.release() and the response. The row
\* locks on the request and on its component are held from the SELECT to the end
\* of the transaction, every read and write of the transaction is of those two
\* rows, and no other statement of this server writes them without the same
\* locks: the transaction takes effect as one step.
SingleTransition(p) ==
  /\ pc[p] = "ss_lock"
  /\ LET id == tx[p].id
         status == tx[p].status
     IN IF id \notin DOMAIN requests \/ requests[id].component_id \notin DOMAIN components
          THEN EndTransaction(p, tx[p], "ROLLBACK",
                              Response(p, "setStatus", id, 404, "Request not found", <<>>))
        ELSE IF /\ status = "APPROVED"
                /\ components[requests[id].component_id].quantity < requests[id].quantity
          THEN EndTransaction(p, tx[p], "ROLLBACK",
                              Response(p, "setStatus", id, 400, "Insufficient stock", <<>>))
        ELSE /\ components' =
                  CommittedComponents(SingleLedger(NoWrites, requests[id], status))
             /\ requests' = [requests EXCEPT ![id] = StatusUpdate(@, status, clock)]
             /\ usage_history' =
                  usage_history \o SingleLedger(NoWrites, requests[id], status).usage
             /\ pc' = [pc EXCEPT ![p] = "idle"]
             /\ tx' = [tx EXCEPT ![p] = IdleTx]
             /\ resp' = Response(p, "setStatus", id, 200, "", <<>>)
             /\ pool' = pool - 1
             /\ UNCHANGED <<request_items, locks, clock, outbox, mailer>>

\* a statement of a single-item handler throws: the status handler rolls back and
\* releases its client, and both handlers answer 500
SingleQueryError(p) ==
  /\ pc[p] \in {"sc_insert", "ss_lock"}
  /\ pc' = [pc EXCEPT ![p] = "idle"]
  /\ tx' = [tx EXCEPT ![p] = IdleTx]
  /\ resp' = Response(p, tx[p].op, tx[p].id, 500, "Internal server error", <<>>)
  /\ pool' = IF pc[p] = "ss_lock" THEN pool - 1 ELSE pool
  /\ UNCHANGED <<db, locks, clock, outbox, mailer>>

\* ------------------------------------------------------------------ client, local mode
\* Without REACT_APP_API_URL the client keeps the stock itself: in ClientSpec
\* components is its components state and usage_history its usageHistory state,
\* newest record first, both saved to local storage after every change.

\* the record handleRecordUsage builds
ClientUsage(c, quantity, type) == [componentId |-> c, quantity |-> quantity, type |-> type]

\* type === "remove" ? -Math.abs(usageRecord.quantity) : Math.abs(usageRecord.quantity)
SignedQuantity(type, typed) == IF type = "remove" THEN 0 - Abs(typed) ELSE Abs(typed)

\* Math.max(0, n)
ClampedAtZero(n) == IF n < 0 THEN 0 ELSE n

\* components.map(...): the selected component's quantity moved by quantity
ClientUpdate(comps, selected, quantity) ==
  [c \in DOMAIN comps |->
     IF c = selected
       THEN [comps[c] EXCEPT !.quantity = ClampedAtZero(comps[c].quantity + quantity)]
       ELSE comps[c]]

\* handleRecordUsage(type) with selectedComponent = selected (MissingId for null)
\* and usageRecord.quantity = typed
handleRecordUsage(type, selected, typed) ==
  /\ clock' = clock + 1
  /\ IF selected = MissingId \/ typed <= 0
       THEN UNCHANGED <<components, usage_history>>
       ELSE /\ components' = ClientUpdate(components, selected, SignedQuantity(type, typed))
            /\ usage_history' =
                 <<ClientUsage(selected, SignedQuantity(type, typed), type)>> \o usage_history
  /\ UNCHANGED <<requests, request_items, locks, pc, tx, resp, outbox, mailer, pool>>

\* ------------------------------------------------------------------ failures
\* a statement throws (connection lost, deadlock detected, constraint violated):
\* the catch block ends the transaction and the handler answers 500
QueryError(p) ==
  /\ pc[p] \in {"s_lock", "s_ledger", "e_lock", "e_check", "c_insert"}
  /\ EndTransaction(p, tx[p], CatchEnd,
                    Response(p, tx[p].op, tx[p].id, 500, "Internal server error", <<>>))

\* the connection of an open transaction is lost: the statement in progress
\* throws, and so does the ROLLBACK of the catch block, which leaves the catch
\* block before client.release(); the outer catch answers 500. The server ends
\* the session's transaction, and with it its row locks.
ConnectionLost(p) ==
  /\ pc[p] \in {"s_lock", "s_ledger", "e_lock", "e_check", "c_insert"}
  /\ locks' = [locks EXCEPT ![p] = {}]
  /\ pc' = [pc EXCEPT ![p] = "idle"]
  /\ tx' = [tx EXCEPT ![p] = IdleTx]
  /\ resp' = Response(p, tx[p].op, tx[p].id, 500, "Internal server error", <<>>)
  /\ UNCHANGED <<db, clock, outbox, mailer, pool>>

\* the autocommit SELECT of the create handler's check loop throws
CreateCheckError(p) ==
  /\ pc[p] = "c_check"
  /\ Reject(p, Response(p, "create", 0, 500, "Internal server error", <<>>))
  /\ UNCHANGED clock

\* an autocommit DELETE of the delete handler throws: what the earlier statements
\* deleted stays deleted
DeleteError(p) ==
  /\ pc[p] \in {"d_usage", "d_items", "d_row"}
  /\ Reject(p, Response(p, "delete", tx[p].id, 500, "Internal server error", <<>>))
  /\ UNCHANGED clock

\* the behaviours explored hold at most MaxOps calls
CallsLeft == clock < MaxOps

Next ==
  \/ \E p \in Proc, name \in CreateNames, items \in CreateLists :
       CallsLeft /\ CreateRequest(p, name, items)
  \/ \E p \in Proc : CreateCheck(p)
  \/ \E p \in Proc : CreateInsert(p)
  \/ \E p \in Proc, id \in RequestIds, status \in StatusInputs, token \in TokenInputs :
       CallsLeft /\ SetStatus(p, id, status, token)
  \/ \E p \in Proc : SetStatusItems(p)
  \/ \E p \in Proc : SetStatusLedger(p)
  \/ \E p \in Proc, id \in RequestIds, name \in EditNames, items \in EditLists :
       CallsLeft /\ EditRequest(p, id, name, items)
  \/ \E p \in Proc : EditLock(p)
  \/ \E p \in Proc : EditCheck(p)
  \/ \E p \in Proc, id \in DeleteIds, token \in TokenInputs :
       CallsLeft /\ DeleteComponent(p, id, token)
  \/ \E p \in Proc : DeleteUsage(p)
  \/ \E p \in Proc : DeleteItems(p)
  \/ \E p \in Proc : DeleteRow(p)
  \/ \E p \in Proc : QueryError(p)
  \/ \E p \in Proc : CreateCheckError(p)
  \/ \E p \in Proc : DeleteError(p)

Spec == Init /\ [][Next]_vars

\* notifications.js on its own: loaded under any environment, then its functions
\* are called
NotifyInit == \E env \in Environments : Started(InitialComponents, <<>>, env)

NotifyNext ==
  \/ \E to \in Recipients, smtp \in SmtpOutcomes :
       CallsLeft /\ SendEmail(to, smtp)
  \/ \E request \in NotifiedRequests, smtp \in SmtpOutcomes :
       CallsLeft /\ NotifyRequestApproved(request, smtp)
  \/ \E request \in NotifiedRequests, smtp \in SmtpOutcomes :
       CallsLeft /\ NotifyRequestReturned(request, smtp)
  \/ \E component \in NotifiedComponents, smtp \in SmtpOutcomes :
       CallsLeft /\ NotifyLowStock(component, smtp)

NotifySpec == NotifyInit /\ [][NotifyNext]_vars

\* The status and edit handlers on their own: two PENDING requests are stored,
\* each with any stocked list, and clients call PATCH /requests/:id/status and
\* PATCH /requests/:id concurrently.
RequestInit ==
  \E lists \in [1..Cardinality(RequestIds) -> StockedLists] :
    Started(InitialComponents, lists, NoMail)

RequestNext ==
  \/ \E p \in Proc, id \in RequestIds, status \in StatusInputs, token \in TokenInputs :
       CallsLeft /\ SetStatus(p, id, status, token)
  \/ \E p \in Proc : SetStatusItems(p)
  \/ \E p \in Proc : SetStatusLedger(p)
  \/ \E p \in Proc, id \in RequestIds, name \in EditNames, items \in EditLists :
       CallsLeft /\ EditRequest(p, id, name, items)
  \/ \E p \in Proc : EditLock(p)
  \/ \E p \in Proc : EditCheck(p)
  \/ \E p \in Proc : QueryError(p)

RequestSpec == RequestInit /\ [][RequestNext]_vars

\* The status and edit handlers with a database connection that can be lost
\* while a transaction is open
FailureNext ==
  \/ RequestNext
  \/ \E p \in Proc : ConnectionLost(p)

FailureSpec == RequestInit /\ [][FailureNext]_vars

\* The status and edit handlers and the outstanding list: two PENDING requests
\* are stored, each for a consumable item only, for a non-consumable item only
\* or for one of each.
OutstandingLists ==
  {<<Item(2, 1)>>, <<Item(1, MaxStock)>>, <<Item(1, 1), Item(2, 1)>>}

OutstandingInit ==
  \E lists \in [1..Cardinality(RequestIds) -> OutstandingLists] :
    Started(InitialComponents, lists, NoMail)

OutstandingNext ==
  \/ RequestNext
  \/ GetOutstanding

OutstandingSpec == OutstandingInit /\ [][OutstandingNext]_vars

\* The single-item handlers: up to two PENDING requests are stored, each for a
\* positive quantity within stock, and clients call POST /requests and
\* PATCH /requests/:id/status concurrently.
SingleItems == {Item(1, 1), Item(2, 1), Item(1, MaxStock)}

\* the quantities a client sends: negative, zero, within stock and beyond it
SingleQuantities == (0 - 1)..(MaxStock + 1)

SingleComponentIds == ComponentIds \cup {MissingId, UnknownId}

SingleInit ==
  \E n \in 0..Cardinality(RequestIds) :
    \E items \in [1..n -> SingleItems] :
      /\ components = InitialComponents
      /\ requests = [k \in 1..n |->
                       SingleRequest(k, "ann", items[k].componentId, items[k].quantity, 0)]
      /\ request_items = <<>>
      /\ usage_history = <<>>
      /\ locks = [p \in Proc |-> {}]
      /\ pc = [p \in Proc |-> "idle"]
      /\ tx = [p \in Proc |-> IdleTx]
      /\ clock = 0
      /\ resp = NoResponse
      /\ outbox = <<>>
      /\ mailer = LoadedMailer(NoMail)
      /\ pool = 0

SingleNext ==
  \/ \E p \in Proc, name \in CreateNames, c \in SingleComponentIds,
        q \in SingleQuantities :
       CallsLeft /\ SingleCreate(p, name, c, q)
  \/ \E p \in Proc : SingleInsert(p)
  \/ \E p \in Proc, id \in RequestIds, status \in StatusInputs, token \in TokenInputs :
       CallsLeft /\ SingleSetStatus(p, id, status, token)
  \/ \E p \in Proc : SingleTransition(p)
  \/ \E p \in Proc : SingleQueryError(p)

SingleSpec == SingleInit /\ [][SingleNext]_vars

\* The client in local mode: two components are stored, each with any quantity
\* up to MaxStock, and the user records manual usage entries.
ClientInit ==
  \E stock \in [ComponentIds -> 0..MaxStock] :
    /\ Started([c \in ComponentIds |->
                  [InitialComponents[c] EXCEPT !.quantity = stock[c]]], <<>>, NoMail)

\* what the quantity field holds: parseInt(event.target.value, 10) || 0
TypedQuantities == (0 - 1)..(MaxStock + 1)

ClientNext ==
  \E type \in {"add", "remove"}, selected \in ComponentIds \cup {MissingId},
     typed \in TypedQuantities :
    CallsLeft /\ handleRecordUsage(type, selected, typed)

ClientSpec == ClientInit /\ [][ClientNext]_vars

\* The approve-and-return scenario: one non-consumable component, no request
\* stored, and one client that creates requests for the component and moves
\* requests to APPROVED or RETURNED, each call after the previous one returned.
ScenarioComponents ==
  [c \in {1} |-> [quantity |-> ScenarioStock, consumable |-> FALSE,
                  min_stock |-> ScenarioStock \div 2]]

ScenarioInit == Started(ScenarioComponents, <<>>, NoMail)

ScenarioCallsLeft == clock < ScenarioOps

ScenarioNext ==
  \/ \E k \in 1..(ScenarioStock + 1) :
       ScenarioCallsLeft /\ CreateRequest(1, "ann", <<Item(1, k)>>)
  \/ CreateCheck(1)
  \/ CreateInsert(1)
  \/ \E id \in RequestIds, status \in {"APPROVED", "RETURNED"} :
       ScenarioCallsLeft /\ SetStatus(1, id, status, ADMIN_TOKEN)
  \/ SetStatusItems(1)
  \/ SetStatusLedger(1)

ScenarioSpec == ScenarioInit /\ [][ScenarioNext]_vars


\* ------------------------------------------------------------------ properties
\* what a request's item rows ask of component c in total
RECURSIVE TotalAsked(_, _)
TotalAsked(rows, c) ==
  IF rows = <<>> THEN 0
  ELSE (IF Head(rows).component_id = c THEN Head(rows).quantity ELSE 0)
       + TotalAsked(Tail(rows), c)

\* the usage records an approval of these item rows appends: one per item
ApprovalRecords(rows, name) ==
  [k \in 1..Len(rows) |->
     [component_id |-> rows[k].component_id, quantity |-> 0 - rows[k].quantity,
      type |-> "remove", project |-> <<"Request by", name>>]]

\* the item rows, joined with their components, that the setStatus call p works
\* on: the rows its item fetch returned, which are the request's rows at the step
\* that fetches them
ItemsRead(p) == IF pc[p] = "s_ledger" THEN tx[p].items ELSE ItemFetch(tx[p].id)

\* the personnel_name on the request row the setStatus call p locked
NameRead(p) ==
  IF pc[p] = "s_ledger" THEN tx[p].row[1].personnel_name
  ELSE requests[tx[p].id].personnel_name

\* the rows among them whose component is flagged non-consumable
NonConsumable(rows) == SelectSeq(rows, LAMBDA ri : ~ri.consumable)

\* the usage records a return of these item rows appends: one per non-consumable item
ReturnRecords(rows, name) ==
  LET back == NonConsumable(rows)
  IN [k \in 1..Len(back) |->
        [component_id |-> back[k].component_id, quantity |-> back[k].quantity,
         type |-> "add", project |-> <<"Return by", name>>]]

\* the change of component c's quantity that a transition to status owes for these
\* item rows
LedgerDelta(rows, status, c) ==
  IF status = "APPROVED" THEN 0 - TotalAsked(rows, c)
  ELSE IF status = "RETURNED" THEN TotalAsked(NonConsumable(rows), c)
  ELSE 0

\* the usage records that a transition to status owes for these item rows
LedgerRecords(rows, name, status) ==
  IF status = "APPROVED" THEN ApprovalRecords(rows, name)
  ELSE IF status = "RETURNED" THEN ReturnRecords(rows, name)
  ELSE <<>>

\* invocation p takes this step
Steps(p) == pc'[p] # pc[p] \/ tx'[p] # tx[p] \/ resp'.to = p

\* invocation p, a call of op, ends with this step
Ends(p, op) == resp'.to = p /\ resp'.op = op

\* C1: in every reachable state every component's quantity is >= 0.
C1_StockNeverNegative ==
  \A c \in DOMAIN components : components[c].quantity >= 0

\* the transaction of p has passed the availability check of an approval and has
\* not committed yet
PassedCheck(p) == pc[p] = "s_ledger" /\ tx[p].status = "APPROVED"

\* C2: two approvals of different requests, against a component whose stock covers
\* either request alone but not both, never both pass the availability check.
C2_ApprovalsExclude ==
  \A p, q \in Proc :
    (p # q /\ PassedCheck(p) /\ PassedCheck(q) /\ tx[p].id # tx[q].id) =>
      \A c \in DOMAIN components :
        LET a == TotalAsked(request_items[tx[p].id], c)
            b == TotalAsked(request_items[tx[q].id], c)
        IN (a > 0 /\ b > 0 /\ a <= components[c].quantity /\ b <= components[c].quantity)
             => a + b <= components[c].quantity

\* C3: the step that ends a setStatus call either commits the new status, every
\* debit or credit of the request's items and every usage record of the
\* transition together (the 200 response), or leaves every table as it was (any
\* other response, a failure after some items were debited included).
C3_TransitionAtomic ==
  [][\A p \in Proc :
       Ends(p, "setStatus") =>
         IF resp'.code = 200
           THEN /\ requests'[tx[p].id].status = tx[p].status
                /\ DOMAIN components' = DOMAIN components
                /\ \A c \in DOMAIN components :
                     components'[c].quantity =
                       components[c].quantity + LedgerDelta(ItemsRead(p), tx[p].status, c)
                /\ usage_history' =
                     usage_history \o LedgerRecords(ItemsRead(p), NameRead(p), tx[p].status)
           ELSE UNCHANGED db]_vars

\* C3 witness: an approval has issued UPDATE requests and the debit of its first
\* item, a second item is still to come, and none of it is visible.
C3_Witness ==
  \E p \in Proc :
    /\ PassedCheck(p)
    /\ tx[p].i = 2
    /\ tx[p].w.comp # <<>>
    /\ requests[tx[p].id].status = "PENDING"
    /\ usage_history = <<>>

\* an item row of request id asks for more than its component holds
ShortItem(id) ==
  \E k \in 1..Len(request_items[id]) :
    LET ri == request_items[id][k]
    IN ri.component_id \in DOMAIN components
       /\ ri.quantity > components[ri.component_id].quantity

\* C4: an approval that reads a request with an item asking for more than its
\* component holds is rejected as a whole: no table changes (no debit, no usage
\* record, status and approved_at as they were).
C4_ShortApprovalRejected ==
  [][\A p \in Proc :
       (/\ pc[p] = "s_lock"
        /\ tx[p].status = "APPROVED"
        /\ tx[p].id \in DOMAIN requests
        /\ ShortItem(tx[p].id)
        /\ Steps(p))
       => (Ends(p, "setStatus") /\ resp'.code # 200 /\ UNCHANGED db)]_vars

\* C4 witness: an approval was just refused for stock, of a request with one item
\* that its component covers and one that its component does not.
C4_Witness ==
  /\ resp.op = "setStatus"
  /\ resp.code = 400
  /\ resp.error = "Insufficient stock"
  /\ ShortItem(resp.id)
  /\ \E k \in 1..Len(request_items[resp.id]) :
       LET ri == request_items[resp.id][k]
       IN ri.quantity <= components[ri.component_id].quantity
  /\ requests[resp.id].status = "PENDING"

\* C5: a request's status only moves PENDING -> APPROVED -> RETURNED, and a
\* setStatus to the status the request already has changes no table.
C5_StatusMonotonic ==
  [][/\ \A r \in DOMAIN requests :
          requests'[r].status # requests[r].status =>
            <<requests[r].status, requests'[r].status>> \in
              {<<"PENDING", "APPROVED">>, <<"APPROVED", "RETURNED">>}
     /\ \A p \in Proc :
          (Ends(p, "setStatus") /\ resp'.code = 200
             /\ requests[tx[p].id].status = tx[p].status)
          => UNCHANGED db]_vars

\* C6: the step that ends a successful setStatus(APPROVED) on a PENDING request
\* lowers each component's quantity by exactly the total the request's items, as
\* the approval read them, ask of it; a component the request does not name keeps
\* its quantity.
C6_ApprovalDebitsExactly ==
  [][\A p \in Proc :
       (/\ Ends(p, "setStatus")
        /\ resp'.code = 200
        /\ tx[p].status = "APPROVED"
        /\ requests[tx[p].id].status = "PENDING")
       => \A c \in DOMAIN components :
            components'[c].quantity =
              components[c].quantity - TotalAsked(ItemsRead(p), c)]_vars

\* C6 witness: an approval of a PENDING request has just committed, of a request
\* that names component 1 and not component 2.
C6_Witness ==
  /\ resp.op = "setStatus"
  /\ resp.code = 200
  /\ requests[resp.id].status = "APPROVED"
  /\ Len(usage_history) = Len(request_items[resp.id])
  /\ TotalAsked(request_items[resp.id], 1) > 0
  /\ TotalAsked(request_items[resp.id], 2) = 0
  /\ 2 \in DOMAIN components
  /\ components[2].quantity = InitialQuantity(2)

\* the only two calls so far were setStatus(r, APPROVED), which committed at tick 1,
\* and then setStatus(r, RETURNED), which committed at tick 2
RoundTrip(r) ==
  /\ clock = 2
  /\ requests[r].status = "RETURNED"
  /\ requests[r].approved_at = 1
  /\ requests[r].returned_at = 2

\* C7: after an approval of a request and then its return, with no other call,
\* every non-consumable component holds its pre-approval quantity again and
\* every consumable one its post-approval quantity.
C7_ReturnRestores ==
  \A r \in DOMAIN requests :
    RoundTrip(r) =>
      \A c \in DOMAIN components :
        components[c].quantity =
          IF components[c].consumable
            THEN InitialQuantity(c) - TotalAsked(request_items[r], c)
            ELSE InitialQuantity(c)

\* C7 witness: such a round trip of a request with a consumable and a
\* non-consumable item.
C7_Witness ==
  \E r \in DOMAIN requests :
    /\ RoundTrip(r)
    /\ TotalAsked(request_items[r], 1) > 0
    /\ TotalAsked(request_items[r], 2) > 0

\* C8: no step of an edit call, accepted or rejected, changes a component's
\* quantity or the usage log.
C8_EditLeavesLedger ==
  [][\A p \in Proc :
       ((tx[p].op = "edit" /\ Steps(p)) \/ Ends(p, "edit"))
       => UNCHANGED <<components, usage_history>>]_vars

\* C8 witness: an edit has just replaced the items and the name of a request.
C8_Witness ==
  /\ resp.op = "edit"
  /\ resp.code = 200
  /\ requests[resp.id].personnel_name = "bob"
  /\ request_items[resp.id] = ItemRows(<<Item(1, 1), Item(2, 1)>>)

\* C9: an edit that reads a request whose status is APPROVED or RETURNED is
\* rejected and leaves the request's row and its items as they were; an edit that
\* succeeds was of a PENDING request.
C9_EditOnlyPending ==
  [][\A p \in Proc :
       /\ (/\ pc[p] = "e_lock"
           /\ tx[p].id \in DOMAIN requests
           /\ requests[tx[p].id].status \in {"APPROVED", "RETURNED"}
           /\ Steps(p))
          => (/\ Ends(p, "edit")
              /\ resp'.code # 200
              /\ requests'[tx[p].id] = requests[tx[p].id]
              /\ request_items'[tx[p].id] = request_items[tx[p].id])
       /\ (Ends(p, "edit") /\ resp'.code = 200)
          => requests[tx[p].id].status = "PENDING"]_vars

\* C9 witness: an edit of an APPROVED request was just refused.
C9_Witness ==
  /\ resp.op = "edit"
  /\ resp.code = 400
  /\ resp.error = "Only pending requests can be edited"
  /\ requests[resp.id].status = "APPROVED"
  /\ requests[resp.id].personnel_name = "ann"

\* an item of the body of the create call p is short of stock: its component
\* exists and holds nothing, or less than the item asks
ShortInBody(p) ==
  \E k \in 1..Len(tx[p].items) :
    LET item == tx[p].items[k]
    IN item.componentId \in DOMAIN components
       /\ (components[item.componentId].quantity <= 0
           \/ components[item.componentId].quantity < item.quantity)

\* C10 as stated: a create call whose body has an item short of stock ends,
\* unless the database fails, with a rejection that reports an available
\* quantity, and stores nothing.
C10_ShortCreateReportsAvailable ==
  [][\A p \in Proc :
       (Ends(p, "create") /\ pc[p] = "c_check" /\ ShortInBody(p) /\ resp'.code # 500)
       => (/\ resp'.code = 400
           /\ Len(resp'.available) = 1
           /\ UNCHANGED <<requests, request_items>>)]_vars

\* C10 amended: when the check loop of a create call reads, for the item at its
\* turn, a component that holds nothing or less than the item asks, the call is
\* rejected with 400 and that component's quantity as available, and no table
\* changes (unless the read itself fails, which is a 500 with nothing stored).
C10_ShortItemRejected ==
  [][\A p \in Proc :
       (/\ pc[p] = "c_check"
        /\ Steps(p)
        /\ LET item == tx[p].items[tx[p].i]
           IN /\ item.componentId \in DOMAIN components
              /\ (components[item.componentId].quantity <= 0
                  \/ components[item.componentId].quantity < item.quantity))
       => (/\ Ends(p, "create")
           /\ UNCHANGED db
           /\ resp'.code \in {400, 500}
           /\ resp'.code = 400 =>
                resp'.available =
                  <<components[tx[p].items[tx[p].i].componentId].quantity>>)]_vars

\* C10 witness: a create was just refused for an item of an emptied component,
\* with available 0 reported.
C10_Witness ==
  /\ resp.op = "create"
  /\ resp.code = 400
  /\ resp.available = <<0>>
  /\ components[1].quantity = 0

\* the body of a create or edit call names somebody and lists at least one item,
\* each with a componentId and a quantity above zero
WellFormed(name, items) ==
  /\ name # ""
  /\ Len(items) > 0
  /\ \A k \in 1..Len(items) : items[k].componentId # MissingId /\ items[k].quantity > 0

\* C11: a create call goes past its validation only with a personnelName, at
\* least one item, and a componentId and a quantity > 0 on every item; it is
\* rejected when the component of the item at the check loop's turn has no row;
\* a create that does not answer 201 stores nothing, and one that does stores
\* items that all name stored components. After every step, every stored request
\* item (of a create or of an edit) has quantity > 0.
C11_InvalidCreateRejected ==
  [][/\ \A p \in Proc :
          /\ tx'[p].op \in {"create", "edit"} => WellFormed(tx'[p].name, tx'[p].items)
          /\ (/\ pc[p] = "c_check"
              /\ Steps(p)
              /\ tx[p].items[tx[p].i].componentId \notin DOMAIN components)
             => (Ends(p, "create") /\ resp'.code \in {404, 500})
          /\ Ends(p, "create") =>
               IF resp'.code = 201
                 THEN /\ Len(requests') = Len(requests) + 1
                      /\ request_items'[Len(requests')] = ItemRows(tx[p].items)
                      /\ \A k \in 1..Len(tx[p].items) :
                           tx[p].items[k].componentId \in DOMAIN components'
                 ELSE UNCHANGED db
     /\ \A r \in DOMAIN request_items' :
          \A k \in 1..Len(request_items'[r]) : request_items'[r][k].quantity > 0]_vars

\* C11 witness: a create was just refused for an item whose componentId resolves
\* to no component, after another create had stored a request.
C11_Witness ==
  /\ resp.op = "create"
  /\ resp.code = 404
  /\ clock = 2
  /\ \E r \in DOMAIN requests : requests[r].requested_at = 1

\* the call q is a setStatus or an edit of a request whose row lock the
\* transaction of p holds
LockedOut(p, q) ==
  /\ p # q
  /\ tx[q].op \in {"setStatus", "edit"}
  /\ <<"requests", tx[q].id>> \in locks[p]

\* C12: while the transaction of one setStatus or edit call holds a request's row
\* lock, another setStatus or edit call on that request takes no step that reads
\* the request or writes a table: the only step it can take is to fail, with no
\* table changed. No two transactions ever hold the same row lock.
C12_RequestLockExcludes ==
  [][\A p, q \in Proc :
       /\ (LockedOut(p, q) /\ Steps(q))
          => (resp'.to = q /\ resp'.code = 500 /\ UNCHANGED db)
       /\ p # q => locks'[p] \cap locks'[q] = {}]_vars

\* C12 witness: an edit waits for the row lock of a request that an approval,
\* with a debit issued and not committed, holds.
C12_Witness ==
  \E p, q \in Proc :
    /\ LockedOut(p, q)
    /\ pc[q] = "e_lock"
    /\ PassedCheck(p)
    /\ tx[p].w.comp # <<>>

\* an item of request id asks for a quantity that its component's initial stock
\* covered, as the creation check saw, and that its stock no longer covers
ExhaustedSince(id) ==
  \E k \in 1..Len(request_items[id]) :
    LET ri == request_items[id][k]
    IN /\ ri.component_id \in DOMAIN components
       /\ ri.quantity <= InitialQuantity(ri.component_id)
       /\ ri.quantity > components[ri.component_id].quantity

\* C13: an approval that reads a request one of whose items was covered by the
\* stock at creation and is not covered by the stock now is rejected, and no
\* table changes: the approval compares with the quantity it reads, not with the
\* one the creation check read.
C13_ApprovalRevalidates ==
  [][\A p \in Proc :
       (/\ pc[p] = "s_lock"
        /\ tx[p].status = "APPROVED"
        /\ tx[p].id \in DOMAIN requests
        /\ ExhaustedSince(tx[p].id)
        /\ Steps(p))
       => (/\ Ends(p, "setStatus")
           /\ resp'.code \in {400, 500}
           /\ resp'.code = 400 => resp'.error = "Insufficient stock"
           /\ UNCHANGED db)]_vars

\* C13 witness: an approval of a PENDING request was just refused for stock that
\* the approval of another request had taken.
C13_Witness ==
  /\ resp.op = "setStatus"
  /\ resp.code = 400
  /\ resp.error = "Insufficient stock"
  /\ requests[resp.id].status = "PENDING"
  /\ ExhaustedSince(resp.id)
  /\ \E r \in DOMAIN requests : r # resp.id /\ requests[r].status = "APPROVED"

\* C14: every step of a setStatus(PENDING) call leaves the components, the usage
\* log and every request's items as they are; the step that answers 200 changes
\* the status field of the named request and nothing else (approved_at and
\* returned_at included), whatever the status was.
C14_ResetOnlyStatus ==
  [][\A p \in Proc :
       (tx[p].op = "setStatus" /\ tx[p].status = "PENDING" /\ Steps(p))
       => /\ UNCHANGED <<components, usage_history, request_items>>
          /\ IF resp'.to = p /\ resp'.code = 200
               THEN requests' = [requests EXCEPT ![tx[p].id].status = "PENDING"]
               ELSE UNCHANGED requests]_vars

\* C14 witness: an APPROVED request was just reset to PENDING; its debit and its
\* usage records stay.
C14_Witness ==
  /\ resp.op = "setStatus"
  /\ resp.code = 200
  /\ requests[resp.id].status = "PENDING"
  /\ requests[resp.id].approved_at = 1
  /\ usage_history # <<>>
  /\ components[1].quantity < InitialQuantity(1)

\* C15: the step in which a setStatus call, whatever its target status, looks for
\* a request that has no row answers 404, and the step in which it reads a
\* request that has no items answers 400 "No items on this request" (or 500 when
\* the statement fails); in both cases no table changes.
C15_EntryChecks ==
  [][\A p \in Proc :
       (pc[p] = "s_lock" /\ Steps(p))
       => /\ tx[p].id \notin DOMAIN requests
               => (/\ Ends(p, "setStatus")
                   /\ resp'.code \in {404, 500}
                   /\ UNCHANGED db)
          /\ (tx[p].id \in DOMAIN requests /\ request_items[tx[p].id] = <<>>)
               => (/\ Ends(p, "setStatus")
                   /\ resp'.code \in {400, 500}
                   /\ resp'.code = 400 => resp'.error = "No items on this request"
                   /\ UNCHANGED db)]_vars

\* C15 witness: a setStatus was just refused on a request whose only items a
\* component delete had removed.
C15_Witness ==
  /\ resp.op = "setStatus"
  /\ resp.code = 400
  /\ resp.error = "No items on this request"
  /\ request_items[resp.id] = <<>>
  /\ requests[resp.id].status = "PENDING"

\* C16: the step that ends a successful setStatus(APPROVED) appends to the usage
\* log exactly one record per item row the approval read, in their order, each
\* with the item's component, type 'remove', minus the item's quantity and
\* 'Request by <personnel_name>'; it sets the request's approved_at to the time
\* the handler took.
C16_ApprovalLogsEachItem ==
  [][\A p \in Proc :
       (Ends(p, "setStatus") /\ resp'.code = 200 /\ tx[p].status = "APPROVED")
       => LET rows == ItemsRead(p)
              before == Len(usage_history)
          IN /\ Len(usage_history') = before + Len(rows)
             /\ SubSeq(usage_history', 1, before) = usage_history
             /\ \A k \in 1..Len(rows) :
                  usage_history'[before + k] =
                    [component_id |-> rows[k].component_id,
                     quantity |-> 0 - rows[k].quantity,
                     type |-> "remove",
                     project |-> <<"Request by", requests[tx[p].id].personnel_name>>]
             /\ requests'[tx[p].id].approved_at = tx[p].now
             /\ requests'[tx[p].id].approved_at # NULL]_vars

\* C16 witness: the approval of a request with two items, of different
\* components, has just committed its two records.
C16_Witness ==
  /\ resp.op = "setStatus"
  /\ resp.code = 200
  /\ requests[resp.id].status = "APPROVED"
  /\ requests[resp.id].approved_at # NULL
  /\ Len(request_items[resp.id]) = 2
  /\ Len(usage_history) = 2
  /\ usage_history[1].component_id # usage_history[2].component_id
  /\ usage_history[2].type = "remove"

\* the rows among those read whose component is stored as non-consumable
ToCredit(rows) ==
  SelectSeq(rows, LAMBDA ri : /\ ri.component_id \in DOMAIN components
                              /\ ~components[ri.component_id].consumable)

\* C17: the step that ends a successful setStatus(RETURNED) raises each
\* non-consumable component by what the item rows read ask of it and appends,
\* per such row and in their order, one record of type 'add' with the row's
\* quantity and 'Return by <personnel_name>'; a consumable component keeps its
\* quantity and gets no record.
C17_ReturnCreditsNonConsumable ==
  [][\A p \in Proc :
       (Ends(p, "setStatus") /\ resp'.code = 200 /\ tx[p].status = "RETURNED")
       => LET back == ToCredit(ItemsRead(p))
              before == Len(usage_history)
          IN /\ \A c \in DOMAIN components :
                  components'[c].quantity =
                    IF components[c].consumable THEN components[c].quantity
                    ELSE components[c].quantity + TotalAsked(ItemsRead(p), c)
             /\ Len(usage_history') = before + Len(back)
             /\ SubSeq(usage_history', 1, before) = usage_history
             /\ \A k \in 1..Len(back) :
                  usage_history'[before + k] =
                    [component_id |-> back[k].component_id,
                     quantity |-> back[k].quantity,
                     type |-> "add",
                     project |-> <<"Return by", requests[tx[p].id].personnel_name>>]]_vars

\* C17 witness: an approved request with a consumable and a non-consumable item
\* was just returned: two 'remove' records and one 'add' record, component 2
\* still debited.
C17_Witness ==
  /\ resp.op = "setStatus"
  /\ resp.code = 200
  /\ requests[resp.id].status = "RETURNED"
  /\ requests[resp.id].approved_at # NULL
  /\ Len(usage_history) = 3
  /\ usage_history[3].type = "add"
  /\ usage_history[3].component_id = 1
  /\ components[2].quantity = InitialQuantity(2) - TotalAsked(request_items[resp.id], 2)
  /\ TotalAsked(request_items[resp.id], 2) > 0

\* the usage records of component c, in the order of the log
UsageOf(log, c) == SelectSeq(log, LAMBDA u : u.component_id = c)

\* C18: no step modifies or removes a usage record of a component that still
\* exists after the step: for every component that a step leaves stored, the
\* records it had are still there, unchanged and in order, followed by those
\* the step appended.
C18_UsageAppendOnly ==
  [][\A c \in DOMAIN components' :
       LET had == UsageOf(usage_history, c)
           has == UsageOf(usage_history', c)
       IN Len(had) <= Len(has) /\ SubSeq(has, 1, Len(had)) = had]_vars

\* the item at the turn of the validation loop of the edit call p cannot be
\* served: its component has no row, or holds nothing, or less than it asks
TurnUnserved(p) ==
  LET item == tx[p].items[tx[p].i]
  IN \/ item.componentId \notin DOMAIN components
     \/ components[item.componentId].quantity <= 0
     \/ components[item.componentId].quantity < item.quantity

\* C19: when the validation loop of an edit of a PENDING request reads, for the
\* new item at its turn, a component that does not exist, holds nothing or holds
\* less than the item asks, the edit is rejected; every rejected edit leaves the
\* request's personnel_name and its items as they were, and an edit answers 200
\* only from a turn whose item is served.
C19_EditRevalidates ==
  [][\A p \in Proc :
       (pc[p] = "e_check" /\ Steps(p))
       => /\ TurnUnserved(p) => (Ends(p, "edit") /\ resp'.code \in {400, 404, 500})
          /\ (Ends(p, "edit") /\ resp'.code # 200)
               => /\ requests'[tx[p].id] = requests[tx[p].id]
                  /\ request_items'[tx[p].id] = request_items[tx[p].id]
          /\ (Ends(p, "edit") /\ resp'.code = 200)
               => /\ ~TurnUnserved(p)
                  /\ tx[p].i = Len(tx[p].items)
                  /\ requests[tx[p].id].status = "PENDING"]_vars

\* C19 witness: an edit of a PENDING request was just refused for its second new
\* item, which asks for more than component 1 holds; the request is as created.
C19_Witness ==
  /\ resp.op = "edit"
  /\ resp.code = 400
  /\ resp.error = "exceeds available stock"
  /\ resp.available = <<InitialQuantity(1)>>
  /\ requests[resp.id].status = "PENDING"
  /\ requests[resp.id].personnel_name = "ann"
  /\ request_items[resp.id] \in {ItemRows(l) : l \in StockedLists}

\* C20: the step that ends a successful setStatus(APPROVED) hands to the mail
\* transport, for each component it debited to a quantity <= its min_stock, a
\* low-stock alert carrying that component, its quantity after the debit and its
\* min_stock.
C20_LowStockNotified ==
  [][\A p \in Proc :
       (Ends(p, "setStatus") /\ resp'.code = 200 /\ tx[p].status = "APPROVED")
       => \A c \in DOMAIN components' :
            (/\ components'[c].quantity < components[c].quantity
             /\ components'[c].quantity <= components'[c].min_stock)
            => \E k \in (Len(outbox) + 1)..Len(outbox') :
                 outbox'[k] = notifyLowStock([name |-> c,
                                              quantity |-> components'[c].quantity,
                                              minStock |-> components'[c].min_stock])]_vars

\* the request or component passed to the last call of notifications.js has the
\* properties the function reads
ArgumentWellFormed ==
  /\ ~IsNull(mailer.arg)
  /\ mailer.fn \in {"notifyRequestApproved", "notifyRequestReturned"}
       => {"personnelName", "items"} \subseteq DOMAIN mailer.arg

\* C21: no call of sendEmail, notifyRequestApproved, notifyRequestReturned or
\* notifyLowStock throws to its caller, whatever request or component it is
\* passed: every call returns, and a call made with email not configured, with
\* no recipient or with an SMTP error returns success = false.
C21_FailuresReturned ==
  mailer.fn # "none"
  => /\ ~mailer.outcome.thrown
     /\ ~mailer.env.transporter => ~mailer.outcome.success

\* what holds of the calls whose argument is well formed: they return, with
\* success true only when the transport accepted the message
WellFormedCallsReturn ==
  (mailer.fn # "none" /\ ArgumentWellFormed)
  => /\ ~mailer.outcome.thrown
     /\ ~mailer.env.transporter => ~mailer.outcome.success
     /\ mailer.outcome.success <=> mailer.outcome.mail # <<>>

\* C22: the 400 response of a setStatus(APPROVED) refused for insufficient stock
\* names the component of the item the availability loop stopped at and carries
\* the quantity that component holds.
C22_ShortApprovalReportsItem ==
  [][\A p \in Proc :
       (Ends(p, "setStatus") /\ resp'.code = 400 /\ resp'.error = "Insufficient stock")
       => LET item == FirstShort(ItemFetch(tx[p].id))
          IN /\ resp'.component = item.component_id
             /\ resp'.available = <<item.component_quantity>>]_vars

\* C23: a setStatus call that does not present the configured admin token ends
\* in the step that receives it, with 403, before a transaction is opened: every
\* open setStatus transaction was opened with the admin token, and the 403 step
\* starts from an idle slot that holds no lock and changes no table and no lock,
\* whatever the target status.
C23_AdminGate ==
  [][\A p \in Proc :
       /\ tx'[p].op = "setStatus" => tx'[p].token = ADMIN_TOKEN
       /\ (Ends(p, "setStatus") /\ resp'.code = 403)
            => /\ pc[p] = "idle" /\ pc'[p] = "idle"
               /\ tx[p] = IdleTx /\ tx'[p] = IdleTx
               /\ locks[p] = {}
               /\ UNCHANGED <<db, locks>>]_vars

\* C23 witness: a setStatus call on the stored PENDING request 1 was just answered
\* 403; the request is PENDING, the stock is as created and the log is empty.
C23_Witness ==
  /\ resp.op = "setStatus"
  /\ resp.code = 403
  /\ resp.id = 1
  /\ 1 \in DOMAIN requests
  /\ requests[1].status = "PENDING"
  /\ \A c \in ComponentIds :
       c \in DOMAIN components /\ components[c].quantity = InitialQuantity(c)
  /\ usage_history = <<>>

\* C25: a successful setStatus(APPROVED) on a request whose committed status is
\* already APPROVED or RETURNED changes no component quantity and appends no
\* usage record.
C25_ApprovalIdempotent ==
  [][\A p \in Proc :
       (/\ Ends(p, "setStatus") /\ resp'.code = 200
        /\ tx[p].status = "APPROVED"
        /\ requests[tx[p].id].status \in {"APPROVED", "RETURNED"})
       => UNCHANGED <<components, usage_history>>]_vars

\* the total of the quantities of the usage records of the given type in log
RECURSIVE Logged(_, _)
Logged(log, type) ==
  IF log = <<>> THEN 0
  ELSE (IF Head(log).type = type THEN Head(log).quantity ELSE 0) + Logged(Tail(log), type)

\* C26: for every stored component, the usage log holds at most as much credited
\* by returns ('add' records) as debited by approvals ('remove' records, which are
\* negative): no return credits what no approval debited.
C26_ReturnsWithinDebits ==
  \A c \in DOMAIN components :
    Logged(UsageOf(usage_history, c), "add")
      + Logged(UsageOf(usage_history, c), "remove") <= 0

\* C27: a setStatus(APPROVED) passes the availability loop only if every
\* component holds at least the sum of what the request's items ask of it.
C27_ApprovalCoversSum ==
  [][\A p \in Proc :
       (pc[p] = "s_lock" /\ pc'[p] = "s_ledger" /\ tx[p].status = "APPROVED")
       => \A c \in DOMAIN components :
            TotalAsked(tx'[p].items, c) <= components[c].quantity]_vars

\* C28: every stored component holds the quantity it was created with plus the
\* sum of the signed quantities of its usage records.
C28_LedgerMatchesLog ==
  \A c \in DOMAIN components :
    components[c].quantity
      = InitialQuantity(c) + Logged(UsageOf(usage_history, c), "add")
                           + Logged(UsageOf(usage_history, c), "remove")

\* the usage record of a transition of a request by ann for quantity of component c
UsageRecord(c, quantity, type, label) ==
  [component_id |-> c, quantity |-> quantity, type |-> type, project |-> <<label, "ann">>]

\* C24: with non-consumable component 1 at ScenarioStock, the first call, a create
\* for k of component 1, stores request 1 as PENDING and leaves the component at
\* ScenarioStock with an empty log; the second call, its approval, answers 200 and
\* leaves the component at ScenarioStock - k with the one record (1, -k, remove);
\* the third call, its return, answers 200 and leaves the request RETURNED and the
\* component at ScenarioStock with the second record (1, +k, add). With
\* ScenarioStock = 10 and k = 7: 10, then 3, then 10.
C24_Scenario ==
  [][LET k == request_items'[1][1].quantity
     IN /\ (Ends(1, "create") /\ resp'.code = 201 /\ clock = 1)
             => /\ requests'[1].status = "PENDING"
                /\ components'[1].quantity = ScenarioStock
                /\ usage_history' = <<>>
        /\ (/\ Ends(1, "setStatus") /\ clock = 2
            /\ tx[1].id = 1 /\ tx[1].status = "APPROVED"
            /\ 1 \in DOMAIN requests /\ requests[1].requested_at = 1)
             => /\ resp'.code = 200
                /\ requests'[1].status = "APPROVED"
                /\ components'[1].quantity = ScenarioStock - k
                /\ usage_history' = <<UsageRecord(1, 0 - k, "remove", "Request by")>>
        /\ (/\ Ends(1, "setStatus") /\ clock = 3
            /\ tx[1].id = 1 /\ tx[1].status = "RETURNED"
            /\ 1 \in DOMAIN requests /\ requests[1].requested_at = 1
            /\ requests[1].status = "APPROVED" /\ requests[1].approved_at = 2)
             => /\ resp'.code = 200
                /\ requests'[1].status = "RETURNED"
                /\ components'[1].quantity = ScenarioStock
                /\ usage_history' = <<UsageRecord(1, 0 - k, "remove", "Request by"),
                                      UsageRecord(1, k, "add", "Return by")>>]_vars

\* C24 witness: the request for all but 3 of component 1 (7 of 10), created by
\* the first call and approved by the second, was just returned by the third; the
\* component is back at ScenarioStock and the log holds the debit and the credit.
C24_Witness ==
  /\ resp.op = "setStatus" /\ resp.code = 200 /\ resp.id = 1
  /\ requests[1].status = "RETURNED"
  /\ requests[1].requested_at = 1
  /\ requests[1].approved_at = 2
  /\ requests[1].returned_at = 3
  /\ request_items[1] = ItemRows(<<Item(1, ScenarioStock - 3)>>)
  /\ components[1].quantity = ScenarioStock
  /\ usage_history = <<UsageRecord(1, 3 - ScenarioStock, "remove", "Request by"),
                       UsageRecord(1, ScenarioStock - 3, "add", "Return by")>>

\* C29: whatever the interleaving of edits and approvals of one request, the
\* step that commits a setStatus(APPROVED) debits every component by exactly what
\* the items the request holds after the step ask of it, those items being the
\* ones the approval read, and the step that commits an edit finds the request's
\* committed status PENDING and leaves it PENDING.
C29_EditAndApprovalSerialise ==
  [][\A p \in Proc :
       /\ (Ends(p, "setStatus") /\ resp'.code = 200 /\ tx[p].status = "APPROVED")
            => /\ requests'[tx[p].id].status = "APPROVED"
               /\ request_items'[tx[p].id] = request_items[tx[p].id]
               /\ \A c \in DOMAIN components :
                    components'[c].quantity
                      = components[c].quantity - TotalAsked(request_items'[tx[p].id], c)
       /\ (Ends(p, "edit") /\ resp'.code = 200)
            => /\ requests[tx[p].id].status = "PENDING"
               /\ requests'[tx[p].id].status = "PENDING"]_vars

\* C29 witness: an approval and an edit of request 1 were called concurrently;
\* the approval took the row lock first and has just committed, debiting both
\* components by exactly what request 1 holds, while the edit still waits for
\* the row lock on a request that is now APPROVED.
C29_Witness ==
  /\ resp.op = "setStatus" /\ resp.code = 200 /\ resp.id = 1
  /\ requests[1].status = "APPROVED"
  /\ \E q \in Proc : pc[q] = "e_lock" /\ tx[q].op = "edit" /\ tx[q].id = 1
  /\ \A c \in DOMAIN components :
       /\ TotalAsked(request_items[1], c) > 0
       /\ components[c].quantity = InitialQuantity(c) - TotalAsked(request_items[1], c)

\* transaction p waits for a component row that transaction q holds
WaitsFor(p, q) ==
  /\ pc[p] = "s_ledger"
  /\ <<"components", tx[p].todo[tx[p].i].component_id>> \in locks[q]

\* C30: no reachable state has two status transactions each holding a component
\* row and waiting for the row the other holds.
C30_NoDeadlock ==
  \A p, q \in Proc : ~(p # q /\ WaitsFor(p, q) /\ WaitsFor(q, p))

\* the invocation p of the status or edit handler has a transaction open
InTransaction(p) == pc[p] \in {"s_lock", "s_ledger", "e_lock", "e_check"}

\* C31: the step that ends a setStatus or edit call with an open transaction
\* gives the call's client back to the pool, once, and leaves the call with no
\* row lock; and the clients checked out are those of the open transactions.
C31_ConnectionReleased ==
  [][/\ \A p \in Proc :
          (InTransaction(p) /\ pc'[p] = "idle")
          => (pool' = pool - 1 /\ locks'[p] = {})
     /\ pool' = Cardinality({p \in Proc : pc'[p] = "c_insert" \/ InTransaction(p)'})]_vars

\* nothing of component c is stored in the given tables: no row of it, no usage
\* record of it and no request item naming it
Gone(c, comps, usage, items) ==
  /\ c \notin DOMAIN comps
  /\ RowCount(usage, c) = 0
  /\ ItemCount(items, c) = 0

\* C32: the step that ends a delete call which found its component leaves either
\* nothing of the component stored, or the component stored with none of its
\* usage records and none of the request items naming it deleted by the call.
C32_DeleteAllOrNothing ==
  [][\A p \in Proc :
       (Ends(p, "delete") /\ pc[p] \in {"d_usage", "d_items", "d_row"})
       => \/ Gone(tx[p].id, components', usage_history', request_items')
          \/ tx[p].id \in DOMAIN components' /\ tx[p].i = 0]_vars

\* C33: every stored request has at least one item.
C33_RequestsHaveItems ==
  \A r \in DOMAIN requests : Len(request_items[r]) >= 1

\* C34: the step that ends an edit call with 200 leaves the request with exactly
\* the rows of the supplied item list, in the supplied order, and with the
\* supplied personnel_name, every other column of its row (status, requested_at,
\* approved_at, returned_at) being as before the step; the request was PENDING.
C34_EditReplaces ==
  [][\A p \in Proc :
       (Ends(p, "edit") /\ resp'.code = 200)
       => /\ request_items'[tx[p].id] = ItemRows(tx[p].items)
          /\ requests'[tx[p].id]
               = [requests[tx[p].id] EXCEPT !.personnel_name = tx[p].name]
          /\ requests[tx[p].id].status = "PENDING"]_vars

\* C34 witness: request 2, stored for all of component 1 under the name ann, was
\* just edited: it holds the two supplied items and the supplied name, and is
\* still PENDING with its timestamps as created.
C34_Witness ==
  /\ resp.op = "edit" /\ resp.code = 200 /\ resp.id = 2
  /\ request_items[2] = ItemRows(<<Item(1, 1), Item(2, 1)>>)
  /\ requests[2] = [NewRequest(2, "ann", 0) EXCEPT !.personnel_name = "bob"]

\* the item at the turn of the check loop of the create call p is served: its
\* component has a row that holds at least what the item asks, and more than 0
TurnServed(p) ==
  LET item == tx[p].items[tx[p].i]
  IN /\ item.componentId \in DOMAIN components
     /\ ~InsufficientStock(components[item.componentId].quantity, item.quantity)

\* C35: no step of a create call changes a component quantity or the usage log,
\* and the check loop refuses an item only for what its component holds at the
\* item's turn, whatever the stored requests already ask of the component.
C35_CreateReservesNothing ==
  [][\A p \in Proc :
       /\ ((pc[p] \in {"c_check", "c_insert"} \/ Ends(p, "create")) /\ Steps(p))
            => UNCHANGED <<components, usage_history>>
       /\ (pc[p] = "c_check" /\ Steps(p) /\ TurnServed(p))
            => ~(Ends(p, "create") /\ resp'.code \in {400, 404})]_vars

\* C35 witness: request 2 was just created while request 1 is PENDING; together
\* they ask more of component 1 than it holds, each of them no more than it
\* holds, and the component's quantity and the usage log are as at the start.
C35_Witness ==
  /\ resp.op = "create" /\ resp.code = 201 /\ resp.id = 2
  /\ requests[1].status = "PENDING" /\ requests[2].status = "PENDING"
  /\ TotalAsked(request_items[1], 1) <= components[1].quantity
  /\ TotalAsked(request_items[2], 1) <= components[1].quantity
  /\ TotalAsked(request_items[1], 1) + TotalAsked(request_items[2], 1)
       > components[1].quantity
  /\ components[1].quantity = InitialQuantity(1)
  /\ usage_history = <<>>

\* C36: every stored request whose status is APPROVED has an approved_at, and
\* every stored request whose status is RETURNED has a returned_at.
C36_StatusStamped ==
  \A r \in DOMAIN requests :
    /\ requests[r].status = "APPROVED" => requests[r].approved_at # NULL
    /\ requests[r].status = "RETURNED" => requests[r].returned_at # NULL

\* C36 witness: request 1 is APPROVED and request 2 was just RETURNED, each with
\* the timestamp of its transition; request 2, returned without having been
\* approved, has no approved_at.
C36_Witness ==
  /\ resp.op = "setStatus" /\ resp.code = 200 /\ resp.id = 2
  /\ requests[1].status = "APPROVED" /\ requests[1].approved_at # NULL
  /\ requests[2].status = "RETURNED" /\ requests[2].returned_at # NULL
  /\ requests[2].approved_at = NULL

\* an item of request r names a stored component that is not consumable
HoldsNonConsumable(r) ==
  \E k \in 1..Len(request_items[r]) :
    /\ request_items[r][k].component_id \in DOMAIN components
    /\ ~components[request_items[r][k].component_id].consumable

\* C37: the list GET /requests/outstanding answers holds a stored request
\* exactly when its status is APPROVED and one of its items names a
\* non-consumable component: not before its approval, not after its return,
\* and never when all its items are consumable.
C37_OutstandingList ==
  (resp.op = "outstanding" /\ resp.code = 200)
  => /\ resp.rows \subseteq DOMAIN requests
     /\ \A r \in DOMAIN requests :
          r \in resp.rows <=> (requests[r].status = "APPROVED" /\ HoldsNonConsumable(r))

\* C37 witness: both requests are APPROVED, request 1 with a non-consumable item
\* and request 2 with a consumable item only; the list just answered holds
\* request 1 alone.
C37_Witness ==
  /\ resp.op = "outstanding" /\ resp.code = 200
  /\ resp.rows = {1}
  /\ requests[1].status = "APPROVED" /\ HoldsNonConsumable(1)
  /\ requests[2].status = "APPROVED" /\ ~HoldsNonConsumable(2)
  /\ Len(request_items[2]) >= 1

\* C38: with one componentId and one quantity per request, no request with a
\* quantity <= 0 is ever stored, and a transition to APPROVED never increases a
\* component's quantity.
C38_NonPositiveCreateRejected ==
  [][/\ \A r \in DOMAIN requests' : requests'[r].quantity > 0
     /\ \A p \in Proc :
          (Ends(p, "setStatus") /\ tx[p].status = "APPROVED") =>
            \A c \in DOMAIN components : components'[c].quantity <= components[c].quantity]_vars

\* C39: the signed quantity of the usage record a manual entry prepends equals the
\* change the entry made to the component's quantity.
C39_UsageMatchesChange ==
  [][Len(usage_history') = Len(usage_history) + 1 =>
       components'[usage_history'[1].componentId].quantity
         - components[usage_history'[1].componentId].quantity
       = usage_history'[1].quantity]_vars

====
